---------------------------- MODULE Spec2Model ----------------------------
(***************************************************************************)
(* Risk-scoring engine of the CardioSentinel backend:                      *)
(*   backend/ml/train_model.py  (normalize_importance, persist_artifacts)  *)
(*   backend/ml/predictor.py    (HeartAttackPredictor)                     *)
(*   backend/api/main.py        (module-level predictor, /api/predict)     *)
(*                                                                         *)
(* Numbers.  Python floats are modelled in fixed point: a real r is the    *)
(* integer r * Unit.  Request fields and feature stats are whole numbers   *)
(* in their natural unit; scaling parameters, weights, bias, vector        *)
(* entries, dataset values, scores and probabilities are in 1/Unit.  A Python dict is a function whose     *)
(* DOMAIN is its key set; a missing file is [exists |-> FALSE].            *)
(***************************************************************************)
EXTENDS Integers, Sequences, FiniteSets, TLC

\* ------------------------------------------------------------------ bounds
\* number of request-handling threads of the web server that may be inside
\* /api/predict at the same time
MaxCalls == 2
\* longest weight vector handed to normalize_importance
MaxWeights == 3
\* most rows of a dataset file
MaxRows == 3

\* --------------------------------------------------------------- constants
Unit == 1000
SigmoidCap == 60
LowBelow == 330
ModerateBelow == 660
ClassifyAt == 500
FastingSugarCutoff == 126
DefaultHealthyLow == 1500
ActivityCutoff == 1500

FEATURE_ORDER ==
    << "age", "sex", "cp", "trestbps", "chol", "fbs", "restecg", "thalach",
       "exang", "oldpeak", "slope", "ca", "thal" >>

CHEST_PAIN_MAPPING ==
    [typical_angina |-> 1, atypical_angina |-> 2, non_anginal |-> 3, asymptomatic |-> 4]

REST_ECG_MAPPING ==
    [normal |-> 0, st_t_abnormality |-> 1, left_ventricular_hypertrophy |-> 2]

SLOPE_MAPPING ==
    [upsloping |-> 1, flat |-> 2, downsloping |-> 3]

THAL_MAPPING ==
    [normal |-> 3, fixed_defect |-> 6, reversible_defect |-> 7]

\* ----------------------------------------------------------------- helpers
Abs(x) == IF x < 0 THEN -x ELSE x

Min(a, b) == IF b < a THEN b ELSE a

Max(a, b) == IF b > a THEN b ELSE a

\* float division a / b rounded toward zero at the fixed-point resolution
FloatDiv(a, b) ==
    LET q == Abs(a) \div Abs(b)
    IN  IF (a < 0) = (b < 0) THEN q ELSE -q

\* dict.get(key, default)
Get(d, key, default) == IF key \in DOMAIN d THEN d[key] ELSE default

RECURSIVE SumSeq(_)
SumSeq(s) == IF s = << >> THEN 0 ELSE Head(s) + SumSeq(Tail(s))

\* zip(a, b): stops at the shorter of the two
Zip(a, b) == [i \in 1..Min(Len(a), Len(b)) |-> << a[i], b[i] >>]

\* exp(f / Unit) for 0 <= f <= Unit, by its power series
ExpFrac(f) ==
    LET t1 == f
        t2 == (t1 * f) \div (2 * Unit)
        t3 == (t2 * f) \div (3 * Unit)
        t4 == (t3 * f) \div (4 * Unit)
        t5 == (t4 * f) \div (5 * Unit)
        t6 == (t5 * f) \div (6 * Unit)
    IN  Unit + t1 + t2 + t3 + t4 + t5 + t6

\* exp(-1) in 1/Unit
ExpMinusOne == (Unit * Unit) \div ExpFrac(Unit)

\* math.exp(-x / Unit) for x >= 0, in 1/Unit
RECURSIVE ExpNeg(_)
ExpNeg(x) ==
    IF x >= Unit THEN (ExpMinusOne * ExpNeg(x - Unit)) \div Unit
    ELSE (Unit * Unit) \div ExpFrac(x)


\* ------------------------------------------------------- HeartAttackPredictor
\* the fields __init__ sets before it calls load_artifacts
NewPredictor ==
    [ feature_order |-> << >>,
      weights |-> << >>,
      bias |-> 0,
      scaling |-> << >>,
      stats |-> << >>,
      feature_importance |-> << >> ]

\* the row with fbs taken from the caller's diabetic flag
RequestRow_FlagDriven(payload) ==
    [ age |-> payload.age,
      sex |-> IF payload.sex = "male" THEN 1 ELSE 0,
      cp |-> CHEST_PAIN_MAPPING[payload.chest_pain_type],
      trestbps |-> payload.bp_systolic,
      chol |-> payload.cholesterol,
      fbs |-> IF payload.diabetic THEN 1 ELSE 0,
      restecg |-> REST_ECG_MAPPING[payload.resting_ecg],
      thalach |-> payload.max_heart_rate,
      exang |-> IF payload.exercise_angina THEN 1 ELSE 0,
      oldpeak |-> payload.st_depression,
      slope |-> SLOPE_MAPPING[payload.slope],
      ca |-> payload.num_major_vessels,
      thal |-> THAL_MAPPING[payload.thalassemia] ]

\* _request_vector, the row dict: every feature in its natural unit
RequestRow(payload) ==
    [ age |-> payload.age,
      sex |-> IF payload.sex = "male" THEN 1 ELSE 0,
      cp |-> CHEST_PAIN_MAPPING[payload.chest_pain_type],
      trestbps |-> payload.bp_systolic,
      chol |-> payload.cholesterol,
      fbs |-> IF payload.sugar_level >= FastingSugarCutoff THEN 1 ELSE 0,
      restecg |-> REST_ECG_MAPPING[payload.resting_ecg],
      thalach |-> payload.max_heart_rate,
      exang |-> IF payload.exercise_angina THEN 1 ELSE 0,
      oldpeak |-> payload.st_depression,
      slope |-> SLOPE_MAPPING[payload.slope],
      ca |-> payload.num_major_vessels,
      thal |-> THAL_MAPPING[payload.thalassemia] ]

\* the loop with self.scaling[feature] in place of self.scaling.get(feature)
VectorEntryError_Indexed(self, row, feature) ==
    IF feature \notin DOMAIN self.scaling \/ feature \notin DOMAIN row THEN "KeyError"
    ELSE IF self.scaling[feature].std = 0 THEN "ZeroDivisionError"
    ELSE ""

\* what one pass of the loop of _request_vector raises, "" when it appends
VectorEntryError(self, row, feature) ==
    IF feature \notin DOMAIN row THEN "KeyError"
    ELSE IF feature \in DOMAIN self.scaling /\ self.scaling[feature].std = 0
         THEN "ZeroDivisionError"
         ELSE ""

\* the value one pass of the loop of _request_vector appends, in 1/Unit
VectorEntry(self, row, feature) ==
    IF feature \in DOMAIN self.scaling
    THEN FloatDiv((row[feature] * Unit - self.scaling[feature].mean) * Unit,
                  self.scaling[feature].std)
    ELSE row[feature] * Unit

\* _request_vector: the loop stops at the first feature that raises
RequestVector(self, payload) ==
    LET row == RequestRow(payload)
        order == self.feature_order
        bad == {i \in 1..Len(order) : VectorEntryError(self, row, order[i]) # ""}
        first == CHOOSE i \in bad : \A j \in bad : i <= j
    IN  IF bad # {}
        THEN [error |-> VectorEntryError(self, row, order[first]), vector |-> << >>]
        ELSE [error |-> "",
              vector |-> [i \in 1..Len(order) |-> VectorEntry(self, row, order[i])]]

\* the sigmoid of a capped score c (|c| <= SigmoidCap * Unit), in 1/Unit.
\* 1 / (1 + exp(-c)) is evaluated as exp(c) / (1 + exp(c)) for c < 0, which
\* is the same number and keeps exp's argument non-positive.
Logistic(c) ==
    IF c >= 0
    THEN (Unit * Unit) \div (Unit + ExpNeg(c))
    ELSE (Unit * ExpNeg(-c)) \div (Unit + ExpNeg(-c))

\* _predict_probability, the linear score
LinearScore(self, vector) ==
    LET pairs == Zip(self.weights, vector)
        terms == [i \in DOMAIN pairs |-> FloatDiv(pairs[i][1] * pairs[i][2], Unit)]
    IN  SumSeq(terms) + self.bias

\* _predict_probability
PredictProbability(self, vector) ==
    LET score == LinearScore(self, vector)
        capped == Max(Min(score, SigmoidCap * Unit), -(SigmoidCap * Unit))
    IN  Logistic(capped)

\* the categories with the thresholds themselves in the lower category
CategorizeRisk_Inclusive(probability) ==
    IF probability <= LowBelow THEN "Low"
    ELSE IF probability <= ModerateBelow THEN "Moderate"
    ELSE "High"

\* _categorize_risk
CategorizeRisk(probability) ==
    IF probability < LowBelow THEN "Low"
    ELSE IF probability < ModerateBelow THEN "Moderate"
    ELSE "High"

\* the classification with a strict comparison
Classify_Strict(probability) == IF probability > ClassifyAt THEN 1 ELSE 0

\* predict, the classification line
Classify(probability) == IF probability >= ClassifyAt THEN 1 ELSE 0


\* --------------------------------------------------------------- messages
InsightBP ==
    "Blood pressure is above the 90th percentile of the dataset, indicating excess arterial strain."

InsightChol ==
    "Cholesterol is significantly elevated compared to peers in the dataset."

InsightAngina ==
    "Exercise-induced angina reported; schedule a stress test at the earliest."

InsightDiabetes ==
    "Fasting sugar indicates possible diabetes; coordinate with an endocrinologist."

InsightLowActivity ==
    "Weekly calorie burn is below the recommended range; integrate moderate activity."

InsightGeneric ==
    "Vitals fall inside the population averages; maintain the current lifestyle and monitoring cadence."

RecLog ==
    "Log BP, sugar, and symptoms daily to capture subtle drifts."

RecShare ==
    "Share this summary with your cardiologist for medication alignment."

RecLipid ==
    "Book a complete lipid profile and stress ECG within the next 7 days."

RecNitrate ==
    "Keep sublingual nitrate handy and avoid strenuous workouts until cleared."

RecActivity ==
    "Walk 30 minutes/day or follow physician-approved cardio rehab plan."

RecGlycemic ==
    "Bring fasting sugar under 110 mg/dL through diet, metformin, or both."

AdvisoryHigh == "High myocardial infarction risk detected."

AdvisoryOther == "Risk is manageable with standard precautions."

\* ------------------------------------------- chart, insights, recommendations
\* _chart_data: chart_fields, and field.replace("_", " ").title() of each
ChartFields == << "bp_systolic", "cholesterol", "max_heart_rate", "sugar_level" >>

ChartLabel ==
    [ bp_systolic |-> "Bp Systolic", cholesterol |-> "Cholesterol",
      max_heart_rate |-> "Max Heart Rate", sugar_level |-> "Sugar Level" ]

ChartKeys == {"healthy_low", "healthy_high", "mean"}

\* _chart_data: fields without stats are skipped; a stats entry that lacks a
\* key the ChartDatum reads raises KeyError
ChartData(self, payload) ==
    LET shown == SelectSeq(ChartFields,
                     LAMBDA f : f \in DOMAIN self.stats /\ DOMAIN self.stats[f] # {})
        broken == \E i \in 1..Len(shown) : ~(ChartKeys \subseteq DOMAIN self.stats[shown[i]])
    IN  IF broken
        THEN [error |-> "KeyError", chart |-> << >>]
        ELSE [error |-> "",
              chart |-> [i \in 1..Len(shown) |->
                  [ label |-> ChartLabel[shown[i]],
                    user_value |-> payload[shown[i]],
                    recommended |-> [ low |-> self.stats[shown[i]].healthy_low,
                                      high |-> self.stats[shown[i]].healthy_high ],
                    population_avg |-> self.stats[shown[i]].mean ]]]

\* _insights, one rule: stats.get(field, {}) is non-empty and the value is
\* above its p90 (a missing p90 defaults to value + 1, so the rule is off)
AboveP90(self, field, value) ==
    LET st == Get(self.stats, field, << >>)
    IN  DOMAIN st # {} /\ value > Get(st, "p90", value + 1)

\* _insights, the low-activity rule
LowActivityInsight(self, payload) ==
    payload.calories_burned <
        Get(Get(self.stats, "calories_burned", << >>), "healthy_low", DefaultHealthyLow)

\* _recommendations, the low-activity rule
LowActivityRecommendation(payload) == payload.calories_burned < ActivityCutoff

\* the insights with the rules chained by elif: only the first that applies
Insights_FirstOnly(self, payload) ==
    IF AboveP90(self, "bp_systolic", payload.bp_systolic) THEN << InsightBP >>
    ELSE IF AboveP90(self, "cholesterol", payload.cholesterol) THEN << InsightChol >>
    ELSE IF payload.exercise_angina THEN << InsightAngina >>
    ELSE IF payload.sugar_level >= FastingSugarCutoff THEN << InsightDiabetes >>
    ELSE IF LowActivityInsight(self, payload) THEN << InsightLowActivity >>
    ELSE << InsightGeneric >>

\* _insights
Insights(self, payload) ==
    LET rules ==
            (IF AboveP90(self, "bp_systolic", payload.bp_systolic) THEN << InsightBP >> ELSE << >>)
         \o (IF AboveP90(self, "cholesterol", payload.cholesterol) THEN << InsightChol >> ELSE << >>)
         \o (IF payload.exercise_angina THEN << InsightAngina >> ELSE << >>)
         \o (IF payload.sugar_level >= FastingSugarCutoff THEN << InsightDiabetes >> ELSE << >>)
         \o (IF LowActivityInsight(self, payload) THEN << InsightLowActivity >> ELSE << >>)
    IN  IF rules = << >> THEN << InsightGeneric >> ELSE rules

\* the recommendations with the glycemic rule nested under the risk rule
Recommendations_Nested(risk_category, payload) ==
       << RecLog, RecShare >>
    \o (IF risk_category # "Low"
        THEN << RecLipid, RecNitrate >>
             \o (IF payload.sugar_level >= FastingSugarCutoff THEN << RecGlycemic >> ELSE << >>)
        ELSE << >>)
    \o (IF LowActivityRecommendation(payload) THEN << RecActivity >> ELSE << >>)

\* _recommendations
Recommendations(risk_category, payload) ==
       << RecLog, RecShare >>
    \o (IF risk_category # "Low" THEN << RecLipid, RecNitrate >> ELSE << >>)
    \o (IF LowActivityRecommendation(payload) THEN << RecActivity >> ELSE << >>)
    \o (IF payload.sugar_level >= FastingSugarCutoff THEN << RecGlycemic >> ELSE << >>)

\* ------------------------------------------------------------------ predict
\* predict with the weights guard after the vector is built
PredictScore_VectorFirst(self, payload) ==
    LET none == [ self |-> self, error |-> "", vector |-> << >>, probability |-> 0,
                  classification |-> 0, risk_category |-> "", risk_score |-> 0 ]
        rv == RequestVector(self, payload)
        probability == PredictProbability(self, rv.vector)
    IN  IF rv.error # "" THEN [none EXCEPT !.error = rv.error]
        ELSE IF self.weights = << >> THEN [none EXCEPT !.error = "ModelNotLoaded"]
        ELSE [ none EXCEPT
                 !.vector = rv.vector,
                 !.probability = probability,
                 !.classification = Classify(probability),
                 !.risk_category = CategorizeRisk(probability),
                 !.risk_score = (probability * 100 * 100) \div Unit ]

\* predict, lines 167-174: the weights guard, the vector and the score.
\* `self` in the result is the engine as the method leaves it.
PredictScore(self, payload) ==
    LET none == [ self |-> self, error |-> "", vector |-> << >>, probability |-> 0,
                  classification |-> 0, risk_category |-> "", risk_score |-> 0 ]
        rv == RequestVector(self, payload)
        probability == PredictProbability(self, rv.vector)
    IN  IF self.weights = << >> THEN [none EXCEPT !.error = "ModelNotLoaded"]
        ELSE IF rv.error # "" THEN [none EXCEPT !.error = rv.error]
        ELSE [ none EXCEPT
                 !.vector = rv.vector,
                 !.probability = probability,
                 !.classification = Classify(probability),
                 !.risk_category = CategorizeRisk(probability),
                 \* round(probability * 100, 2), in 1/100 of a percent
                 !.risk_score = (probability * 100 * 100) \div Unit ]

\* predict that folds the bias of the call into the shared engine
PredictRespond_KeepsBias(self, payload, scored) ==
    LET cd == ChartData(self, payload)
        kept == [self EXCEPT !.bias = scored.probability]
    IN  [ self |-> kept,
          error |-> cd.error,
          response |->
            IF cd.error # "" THEN << >>
            ELSE [ name |-> payload.name,
                   risk_category |-> scored.risk_category,
                   risk_score |-> scored.risk_score,
                   probability |-> scored.probability,
                   classification |-> scored.classification,
                   advisory_message |->
                       IF scored.risk_category = "High" THEN AdvisoryHigh ELSE AdvisoryOther,
                   chart |-> cd.chart,
                   key_insights |-> Insights(self, payload),
                   feature_importance |-> self.feature_importance,
                   recommended_actions |-> Recommendations(scored.risk_category, payload) ] ]

\* predict, lines 176-195: advisory, chart, insights, recommendations and the
\* response built from them and from what PredictScore left in the locals
PredictRespond(self, payload, scored) ==
    LET cd == ChartData(self, payload)
    IN  [ self |-> self,
          error |-> cd.error,
          response |->
            IF cd.error # "" THEN << >>
            ELSE [ name |-> payload.name,
                   risk_category |-> scored.risk_category,
                   risk_score |-> scored.risk_score,
                   probability |-> scored.probability,
                   classification |-> scored.classification,
                   advisory_message |->
                       IF scored.risk_category = "High" THEN AdvisoryHigh ELSE AdvisoryOther,
                   chart |-> cd.chart,
                   key_insights |-> Insights(self, payload),
                   feature_importance |-> self.feature_importance,
                   recommended_actions |-> Recommendations(scored.risk_category, payload) ] ]

\* predict as one call on an engine nobody else touches
Predict(self, payload) ==
    LET scored == PredictScore(self, payload)
        built == PredictRespond(scored.self, payload, scored)
    IN  IF scored.error # ""
        THEN [self |-> scored.self, error |-> scored.error, response |-> << >>]
        ELSE built


\* ------------------------------------------------------------- train_model
FeatureNames == {FEATURE_ORDER[i] : i \in DOMAIN FEATURE_ORDER}

\* math.sqrt, rounded down at the fixed-point resolution: the s between lo
\* and hi with s * s <= x < (s + 1) * (s + 1)
RECURSIVE SqrtBetween(_, _, _)
SqrtBetween(x, lo, hi) ==
    IF hi - lo <= 1 THEN lo
    ELSE LET mid == (lo + hi) \div 2
         IN  IF mid * mid <= x THEN SqrtBetween(x, mid, hi)
             ELSE SqrtBetween(x, lo, mid)

\* math.sqrt of x / Unit^2, in 1/Unit
Sqrt(x) == SqrtBetween(x, 0, Min(x + 1, 46341))

\* a cell of the dataset file: a number, or the token "?"
Known(v) == [known |-> TRUE, value |-> v]

Unknown == [known |-> FALSE]

\* load_dataset, lines 39-46: one record per row, None for "?", and the
\* target cast to 1.0 or 0.0
RawRows(file) ==
    [i \in DOMAIN file |->
        [ cells |-> file[i].cells,
          target |-> IF file[i].target >= 1 * Unit THEN 1 * Unit ELSE 0 ]]

\* load_dataset, line 50: the known values of a column, in row order
KnownValues(raw_rows, feature) ==
    LET known == SelectSeq(raw_rows, LAMBDA r : r.cells[feature].known)
    IN  [i \in DOMAIN known |-> known[i].cells[feature].value]

\* load_dataset: the cleaned rows, or the ZeroDivisionError of line 51 for a
\* column without any known value
LoadDataset(file) ==
    LET raw_rows == RawRows(file)
        empty == {f \in FeatureNames : KnownValues(raw_rows, f) = << >>}
        feature_means ==
            [f \in FeatureNames |->
                FloatDiv(SumSeq(KnownValues(raw_rows, f)), Len(KnownValues(raw_rows, f)))]
    IN  IF empty # {}
        THEN [error |-> "ZeroDivisionError", rows |-> << >>]
        ELSE [error |-> "",
              rows |-> [i \in DOMAIN raw_rows |->
                  [f \in FeatureNames \cup {"target"} |->
                      IF f = "target" THEN raw_rows[i].target
                      ELSE IF raw_rows[i].cells[f].known
                           THEN raw_rows[i].cells[f].value
                           ELSE feature_means[f]]]]

\* compute_scaling, one feature: the mean and the population std of a column
ColumnMean(rows, feature) ==
    FloatDiv(SumSeq([i \in DOMAIN rows |-> rows[i][feature]]), Len(rows))

ColumnVariance(rows, feature) ==
    LET mean == ColumnMean(rows, feature)
    IN  FloatDiv(SumSeq([i \in DOMAIN rows |->
                     (rows[i][feature] - mean) * (rows[i][feature] - mean)]),
                 Len(rows))

\* compute_scaling without `or 1.0`
ComputeScaling_NoFloor(rows) ==
    [f \in FeatureNames |->
        [ mean |-> ColumnMean(rows, f), std |-> Sqrt(ColumnVariance(rows, f)) ]]

\* compute_scaling, for a non-empty sequence of rows
ComputeScaling(rows) ==
    [f \in FeatureNames |->
        [ mean |-> ColumnMean(rows, f),
          std |-> IF Sqrt(ColumnVariance(rows, f)) = 0 THEN 1 * Unit
                  ELSE Sqrt(ColumnVariance(rows, f)) ]]

\* scale_row
ScaleRow(row, scaling) ==
    IF \E f \in FeatureNames : scaling[f].std = 0
    THEN [error |-> "ZeroDivisionError", vector |-> << >>]
    ELSE [error |-> "",
          vector |-> [i \in DOMAIN FEATURE_ORDER |->
              FloatDiv((row[FEATURE_ORDER[i]] - scaling[FEATURE_ORDER[i]].mean) * Unit,
                       scaling[FEATURE_ORDER[i]].std)]]

\* build_design_matrix
BuildDesignMatrix(rows, scaling) ==
    IF \E i \in DOMAIN rows : ScaleRow(rows[i], scaling).error # ""
    THEN [error |-> "ZeroDivisionError", X |-> << >>, y |-> << >>]
    ELSE [error |-> "",
          X |-> [i \in DOMAIN rows |-> ScaleRow(rows[i], scaling).vector],
          y |-> [i \in DOMAIN rows |-> rows[i].target]]

\* resolution of the learning rate, 10^-9: 0.045 * 0.9^d is exact for d <= 5
LrUnit == 1000000000

\* lr: float = 0.045
DefaultLr == 45000000

\* epochs: int = 4500
DefaultEpochs == 4500

\* epoch % 750
DecayEvery == 750

\* lr *= 0.9, in tenths
DecayTenths == 9

\* sigmoid's cap of its argument
TrainSigmoidCap == 60

\* train_model.sigmoid
Sigmoid(value) ==
    Logistic(Max(Min(value, TrainSigmoidCap * Unit), -(TrainSigmoidCap * Unit)))

\* train_logistic_regression, line 103: the score of one sample
Score(weights, bias, features) ==
    LET pairs == Zip(weights, features)
    IN  SumSeq([i \in DOMAIN pairs |-> FloatDiv(pairs[i][1] * pairs[i][2], Unit)]) + bias

\* train_logistic_regression, lines 104-105: pred - label of the n-th sample
Diff(self, n) == Sigmoid(Score(self.weights, self.bias, self.X[n])) - self.y[n]

\* train_logistic_regression, lines 106-107
GradW(self, idx) ==
    SumSeq([n \in 1..Min(Len(self.X), Len(self.y)) |->
               FloatDiv(Diff(self, n) * self.X[n][idx], Unit)])

\* train_logistic_regression, line 108
GradB(self) == SumSeq([n \in 1..Min(Len(self.X), Len(self.y)) |-> Diff(self, n)])

\* step * grad with step = lr / sample_count; the step is kept in 10^-6
StepTimes(lr, sample_count, grad) ==
    FloatDiv(FloatDiv(lr, (LrUnit \div (Unit * Unit)) * sample_count) * grad, Unit * Unit)

\* lr *= 0.9
Decay(lr) == FloatDiv(lr * DecayTenths, 10)

\* the history of the rates: how many updates each rate level has served
CountUpdate(self) ==
    IF self.updates = 0 \/ self.lr # self.rate
    THEN Append(self.levels, 1)
    ELSE [self.levels EXCEPT ![Len(self.levels)] = @ + 1]

\* train_logistic_regression, lines 94-97
TrainBegin(self) ==
    [self EXCEPT !.pc = "epoch",
                 !.weights = [i \in DOMAIN FEATURE_ORDER |-> 0],
                 !.bias = 0, !.epoch = 0]

\* one epoch with the decay tested before the update, on the number of the
\* update
TrainStep_DecayAhead(self) ==
    IF Len(self.X) = 0
    THEN [self EXCEPT !.pc = "failed", !.error = "ZeroDivisionError",
                      !.at = "train_logistic_regression"]
    ELSE LET lr == IF self.epoch % DecayEvery = 0 /\ self.epoch # 0
                   THEN Decay(self.lr) ELSE self.lr
         IN  [self EXCEPT
                !.weights = [idx \in DOMAIN FEATURE_ORDER |->
                    self.weights[idx] - StepTimes(lr, Len(self.X), GradW(self, idx))],
                !.bias = self.bias - StepTimes(lr, Len(self.X), GradB(self)),
                !.updates = @ + 1,
                !.rate = lr,
                !.levels = CountUpdate([self EXCEPT !.lr = lr]),
                !.lr = lr,
                !.epoch = @ + 1]

\* train_logistic_regression, lines 100-114: one turn of the epoch loop. The
\* fields updates, rate and levels record the history: the updates made, the
\* lr of the last one, and the updates per rate level.
TrainStep(self) ==
    IF Len(self.X) = 0
    THEN [self EXCEPT !.pc = "failed", !.error = "ZeroDivisionError",
                      !.at = "train_logistic_regression"]
    ELSE [self EXCEPT
            !.weights = [idx \in DOMAIN FEATURE_ORDER |->
                self.weights[idx] - StepTimes(self.lr, Len(self.X), GradW(self, idx))],
            !.bias = self.bias - StepTimes(self.lr, Len(self.X), GradB(self)),
            !.updates = @ + 1,
            !.rate = self.lr,
            !.levels = CountUpdate(self),
            !.lr = IF self.epoch % DecayEvery = 0 /\ self.epoch # 0
                   THEN Decay(self.lr) ELSE self.lr,
            !.epoch = @ + 1]

\* the importance of the signed weights, without abs
NormalizeImportance_Signed(weights) ==
    LET pairs == Zip(FEATURE_ORDER, weights)
        raw == [f \in {pairs[i][1] : i \in DOMAIN pairs} |->
                   weights[CHOOSE i \in DOMAIN pairs : pairs[i][1] = f]]
        sum == SumSeq([i \in DOMAIN pairs |-> raw[pairs[i][1]]])
        total == IF sum = 0 THEN 1 ELSE sum
    IN  [f \in DOMAIN raw |-> [num |-> raw[f], den |-> total]]

\* normalize_importance.  A value is the exact quotient num / den.
NormalizeImportance(weights) ==
    LET pairs == Zip(FEATURE_ORDER, weights)
        raw == [f \in {pairs[i][1] : i \in DOMAIN pairs} |->
                   Abs(weights[CHOOSE i \in DOMAIN pairs : pairs[i][1] = f])]
        sum == SumSeq([i \in DOMAIN pairs |-> raw[pairs[i][1]]])
        total == IF sum = 0 THEN 1 ELSE sum
    IN  [f \in DOMAIN raw |-> [num |-> raw[f], den |-> total]]

\* ---------------------------------------------------------------- JSON files
\* the top-level keys of the three documents, in the order they are written
KeyOrder ==
    << "feature_order", "weights", "bias", "scaling",
       "feature_stats",
       "bp_systolic", "cholesterol", "max_heart_rate", "st_depression",
       "sugar_level", "calories_burned",
       "feature_importance", "samples" >>

\* json.dump of a dict: the text of the object, one member per key.  A finite
\* float is written by repr and read back as the same float, so a member's
\* value is carried as it is.
JsonDump(d) ==
    LET keys == SelectSeq(KeyOrder, LAMBDA k : k \in DOMAIN d)
    IN  [i \in 1..Len(keys) |-> << keys[i], d[keys[i]] >>]

\* json.load of an object: a key that occurs twice keeps its last value
JsonLoad(text) ==
    [k \in {text[i][1] : i \in DOMAIN text} |->
        text[CHOOSE i \in DOMAIN text :
                /\ text[i][1] = k
                /\ \A j \in DOMAIN text : text[j][1] = k => j <= i][2]]

NoFile == [exists |-> FALSE]

File(text) == [exists |-> TRUE, text |-> text]

\* persist_artifacts: the three files after the call
PersistArtifacts(fs, model_payload, feature_stats, report) ==
    [ model |-> File(JsonDump(model_payload)),
      stats |-> File(JsonDump([feature_stats |-> feature_stats])),
      report |-> File(JsonDump(report)) ]

\* load_artifacts, lines 54-59: the fields are assigned in this order and the
\* first absent key raises KeyError, the earlier fields staying assigned
ModelKeys == << "feature_order", "weights", "bias", "scaling" >>

RECURSIVE AssignModel(_, _, _)
AssignModel(self, payload, keys) ==
    IF keys = << >> THEN [self |-> self, error |-> ""]
    ELSE IF Head(keys) \notin DOMAIN payload
         THEN [self |-> self, error |-> "MalformedArtifact"]
         ELSE AssignModel([self EXCEPT ![Head(keys)] = payload[Head(keys)]],
                          payload, Tail(keys))

\* the load with the stats file looked for only after the model is assigned
LoadArtifacts_LateStatsCheck(self, fs) ==
    IF ~fs.model.exists THEN [self |-> self, error |-> "ArtifactMissing"]
    ELSE
      LET m == AssignModel(self, JsonLoad(fs.model.text), ModelKeys)
          stats_payload == JsonLoad(fs.stats.text)
          withStats ==
              [m.self EXCEPT !.stats = Get(stats_payload, "feature_stats", stats_payload)]
          withReport ==
              [withStats EXCEPT !.feature_importance =
                  IF fs.report.exists
                  THEN Get(JsonLoad(fs.report.text), "feature_importance", << >>)
                  ELSE << >>]
      IN  IF m.error # "" THEN m
          ELSE IF ~fs.stats.exists THEN [self |-> m.self, error |-> "StatsMissing"]
          ELSE [self |-> withReport, error |-> ""]

\* the load that keeps the stats document as it is, wrapper included
LoadArtifacts_NoUnwrap(self, fs) ==
    IF ~fs.model.exists THEN [self |-> self, error |-> "ArtifactMissing"]
    ELSE IF ~fs.stats.exists THEN [self |-> self, error |-> "StatsMissing"]
    ELSE
      LET m == AssignModel(self, JsonLoad(fs.model.text), ModelKeys)
          withStats == [m.self EXCEPT !.stats = JsonLoad(fs.stats.text)]
          withReport ==
              [withStats EXCEPT !.feature_importance =
                  IF fs.report.exists
                  THEN Get(JsonLoad(fs.report.text), "feature_importance", << >>)
                  ELSE << >>]
      IN  IF m.error # "" THEN m ELSE [self |-> withReport, error |-> ""]

\* load_artifacts.  error: "ArtifactMissing" and "StatsMissing" are the two
\* FileNotFoundError, "MalformedArtifact" is the KeyError of a missing key.
LoadArtifacts(self, fs) ==
    IF ~fs.model.exists THEN [self |-> self, error |-> "ArtifactMissing"]
    ELSE IF ~fs.stats.exists THEN [self |-> self, error |-> "StatsMissing"]
    ELSE
      LET m == AssignModel(self, JsonLoad(fs.model.text), ModelKeys)
          stats_payload == JsonLoad(fs.stats.text)
          withStats ==
              [m.self EXCEPT !.stats = Get(stats_payload, "feature_stats", stats_payload)]
          withReport ==
              [withStats EXCEPT !.feature_importance =
                  IF fs.report.exists
                  THEN Get(JsonLoad(fs.report.text), "feature_importance", << >>)
                  ELSE << >>]
      IN  IF m.error # "" THEN m ELSE [self |-> withReport, error |-> ""]


\* ------------------------------------------------------------------- inputs
\* the validated requests the route hands to predict
RequestWith(a, s, c, bp, chol, angina, flags) ==
    [ name |-> "patient", age |-> a, sex |-> "male",
      chest_pain_type |-> "typical_angina", bp_systolic |-> bp,
      bp_diastolic |-> 80, cholesterol |-> chol, sugar_level |-> s,
      calories_burned |-> c, max_heart_rate |-> 150, resting_ecg |-> "normal",
      exercise_angina |-> angina, st_depression |-> 1, slope |-> "flat",
      num_major_vessels |-> 0, thalassemia |-> "normal", fasting_hours |-> 8,
      smoker |-> flags, diabetic |-> flags ]

Request(a, s, c) == RequestWith(a, s, c, 120, 200, FALSE, FALSE)

\* requests in which every age, every sugar level and every calorie burn
\* meets both values of each other field's boundary; some have a blood
\* pressure or a cholesterol above the p90 of TrainingStats, or angina, and
\* one differs from another in the smoker and diabetic flags only
Requests ==
    { Request(40, 125, 1700),
      RequestWith(40, 130, 1200, 160, 320, TRUE, FALSE),
      RequestWith(50, 126, 1700, 160, 200, TRUE, FALSE),
      Request(50, 125, 1200),
      RequestWith(50, 125, 1200, 120, 200, FALSE, TRUE),
      RequestWith(60, 130, 1700, 120, 320, FALSE, FALSE),
      Request(60, 126, 1200) }

AgeScaling == [age |-> [mean |-> 50 * Unit, std |-> 10 * Unit]]

\* the toy artifact: one feature, weight 1.0, bias 0.0
ToyArtifact ==
    [ feature_order |-> << "age" >>, weights |-> << 1000 >>, bias |-> 0,
      scaling |-> AgeScaling ]

\* well-formed artifacts
GoodArtifacts ==
    { ToyArtifact,
      \* fbs has no scaling entry
      [ feature_order |-> << "age", "fbs" >>, weights |-> << 1000, 2000 >>,
        bias |-> -1000, scaling |-> AgeScaling ],
      \* scores beyond the cap of the sigmoid
      [ ToyArtifact EXCEPT !.weights = << 70000 >> ],
      \* scores whose probabilities are the two category thresholds
      [ ToyArtifact EXCEPT !.weights = << 687 >>, !.bias = -20 ] }

\* documents json.load reads without error but that are no well-formed artifact
OddArtifacts ==
    { \* fewer weights than features
      [ ToyArtifact EXCEPT !.feature_order = << "age", "fbs" >> ],
      \* no weights, and a feature no request has
      [ feature_order |-> << "bmi" >>, weights |-> << >>, bias |-> 0, scaling |-> << >> ],
      \* a feature no request has
      [ ToyArtifact EXCEPT !.feature_order = << "age", "bmi" >>,
                           !.weights = << 1000, 1000 >> ],
      \* a zero std
      [ ToyArtifact EXCEPT !.scaling = [age |-> [mean |-> 50 * Unit, std |-> 0]] ],
      \* each required key absent in turn
      [ weights |-> << 1000 >>, bias |-> 0, scaling |-> AgeScaling ],
      [ feature_order |-> << "age" >>, bias |-> 0, scaling |-> AgeScaling ],
      [ feature_order |-> << "age" >>, weights |-> << 1000 >>, scaling |-> AgeScaling ],
      [ feature_order |-> << "age" >>, weights |-> << 1000 >>, bias |-> 0 ] }

Summary(mean, p10, p90, min, max, lo, hi) ==
    [ mean |-> mean, p10 |-> p10, p90 |-> p90, min |-> min, max |-> max,
      healthy_low |-> lo, healthy_high |-> hi ]

\* compute_feature_stats: the four summaries of a dataset, and the two
\* hard-coded entries
TrainingStats ==
    [ bp_systolic |-> Summary(131, 110, 152, 94, 200, 90, 120),
      cholesterol |-> Summary(246, 188, 308, 126, 564, 125, 200),
      max_heart_rate |-> Summary(149, 116, 176, 71, 202, 90, 170),
      st_depression |-> Summary(1, 0, 3, 0, 6, 0, 2),
      sugar_level |-> Summary(99, 70, 125, 65, 180, 70, 99),
      calories_burned |-> Summary(2000, 1200, 3500, 800, 4000, 1500, 3000) ]

\* feature-stats maps a stats file may hold
StatsMaps ==
    { TrainingStats,
      \* another healthy range for the calorie burn
      [ TrainingStats EXCEPT !.calories_burned.healthy_low = 2000 ],
      [ TrainingStats EXCEPT !.calories_burned.healthy_low = 1000 ],
      \* no entry for the calorie burn
      [ f \in DOMAIN TrainingStats \ {"calories_burned"} |-> TrainingStats[f] ] }

\* training reports
Reports ==
    { [ samples |-> 303,
        feature_importance |-> NormalizeImportance(<< 1000, -3000 >>) ],
      [ samples |-> 303 ] }

\* what the training script is run with
PersistedPayloads ==
    { ToyArtifact,
      [ feature_order |-> << "age", "fbs" >>, weights |-> << -2000, 500 >>,
        bias |-> 250, scaling |-> AgeScaling ],
      [ feature_order |-> << "age" >>, weights |-> << 1000 >>, scaling |-> AgeScaling ] }

PersistedStats ==
    { TrainingStats, [ TrainingStats EXCEPT !.calories_burned.healthy_low = 2000 ] }

\* the model, stats and report files the service may find when it starts:
\* every artifact with the stats of a training run, and the toy artifact
\* with every stats document (wrapped or not) and report
InitialFiles ==
       { [ model |-> m, stats |-> File(JsonDump([feature_stats |-> TrainingStats])),
           report |-> NoFile ] :
         m \in {NoFile} \cup {File(JsonDump(a)) : a \in GoodArtifacts \cup OddArtifacts} }
  \cup { [ model |-> File(JsonDump(a)), stats |-> st, report |-> r ] :
         a \in {ToyArtifact},
         st \in {NoFile} \cup {File(JsonDump([feature_stats |-> t])) : t \in StatsMaps}
                         \cup {File(JsonDump(TrainingStats))},
         r \in {NoFile} \cup {File(JsonDump(x)) : x \in Reports} }

\* -------------------------------------------------------------------- state
VARIABLES
    files,       \* the model, stats and report files
    phase,       \* the service process: "down", "loaded" or "failed"
    loadError,   \* what load_artifacts raised in the constructor, "" if nothing
    predictor,   \* the fields of the module-level HeartAttackPredictor
    persisted,   \* the arguments of the last persist_artifacts call
    calls,       \* per request thread: its position in /api/predict and its locals
    train        \* the training script: the weight vector and what it derived

vars == << files, phase, loadError, predictor, persisted, calls, train >>

Threads == 1..MaxCalls

Idle == [ pc |-> "idle", payload |-> << >>, scored |-> << >>, error |-> "",
          response |-> << >> ]

NotPersisted == [done |-> FALSE]

\* the locals of the training script; `at` names the function that raised
TrainOff ==
    [ pc |-> "off", file |-> << >>, rows |-> << >>, scaling |-> << >>,
      X |-> << >>, y |-> << >>, weights |-> << >>, importance |-> << >>,
      bias |-> 0, epochs |-> 0, epoch |-> 0, lr |-> 0, lr0 |-> 0,
      updates |-> 0, rate |-> 0, levels |-> << >>,
      error |-> "", at |-> "" ]

Init ==
    /\ files \in InitialFiles
    /\ phase = "down"
    /\ loadError = ""
    /\ predictor = NewPredictor
    /\ persisted = NotPersisted
    /\ calls = [c \in Threads |-> Idle]
    /\ train = TrainOff

\* ------------------------------------------------------------------ actions
\* train_model.persist_artifacts, run before the service process starts
PersistArtifactsCall(model_payload, feature_stats, report) ==
    /\ phase = "down"
    /\ files' = PersistArtifacts(files, model_payload, feature_stats, report)
    /\ persisted' = [ done |-> TRUE, model_payload |-> model_payload,
                      feature_stats |-> feature_stats, report |-> report ]
    /\ UNCHANGED << phase, loadError, predictor, calls, train >>

\* main.py line 24: HeartAttackPredictor(), that is __init__ and load_artifacts.
\* An exception leaves the module without a predictor: no route is served.
Construct ==
    /\ phase = "down"
    /\ LET r == LoadArtifacts(NewPredictor, files)
       IN  /\ predictor' = r.self
           /\ loadError' = r.error
           /\ phase' = IF r.error = "" THEN "loaded" ELSE "failed"
    /\ UNCHANGED << files, persisted, calls, train >>

\* /api/predict on thread c, up to the risk score of predict
ApiPredictScore(c, payload) ==
    /\ phase = "loaded"
    /\ calls[c].pc = "idle"
    /\ LET r == PredictScore(predictor, payload)
       IN  /\ predictor' = r.self
           /\ calls' = [calls EXCEPT ![c] =
                 [ pc |-> IF r.error = "" THEN "scored" ELSE "failed",
                   payload |-> payload,
                   scored |-> IF r.error = "" THEN [r EXCEPT !.self = << >>] ELSE << >>,
                   error |-> r.error,
                   response |-> << >> ]]
    /\ UNCHANGED << files, phase, loadError, persisted, train >>

\* /api/predict on thread c, the rest of predict
ApiPredictRespond(c) ==
    /\ calls[c].pc = "scored"
    /\ LET r == PredictRespond(predictor, calls[c].payload, calls[c].scored)
       IN  /\ predictor' = r.self
           /\ calls' = [calls EXCEPT ![c] =
                 [ @ EXCEPT !.pc = IF r.error = "" THEN "done" ELSE "failed",
                            !.error = r.error,
                            !.response = r.response ]]
    /\ UNCHANGED << files, phase, loadError, persisted, train >>

\* the route returns jsonify(asdict(result)), or the exception leaves it
ApiReturn(c) ==
    /\ calls[c].pc \in {"done", "failed"}
    /\ calls' = [calls EXCEPT ![c] = Idle]
    /\ UNCHANGED << files, phase, loadError, predictor, persisted, train >>

\* train_model.normalize_importance on the fitted weights
NormalizeImportanceCall ==
    /\ train.pc = "fitted"
    /\ train' = [train EXCEPT !.pc = "reported",
                              !.importance = NormalizeImportance(train.weights)]
    /\ UNCHANGED << files, phase, loadError, predictor, persisted, calls >>

Next ==
    \/ \E a \in PersistedPayloads, t \in PersistedStats, r \in Reports :
           PersistArtifactsCall(a, t, r)
    \/ Construct
    \/ \E c \in Threads, payload \in Requests : ApiPredictScore(c, payload)
    \/ \E c \in Threads : ApiPredictRespond(c)
    \/ \E c \in Threads : ApiReturn(c)

Spec == Init /\ [][Next]_vars

\* train_model.load_dataset on the dataset file
LoadDatasetCall ==
    /\ train.pc = "start"
    /\ LET r == LoadDataset(train.file)
       IN  train' = IF r.error # ""
                    THEN [train EXCEPT !.pc = "failed", !.error = r.error,
                                       !.at = "load_dataset"]
                    ELSE [train EXCEPT !.pc = "rows", !.rows = r.rows]
    /\ UNCHANGED << files, phase, loadError, predictor, persisted, calls >>

\* train_model.compute_scaling on the loaded rows
ComputeScalingCall ==
    /\ train.pc = "rows"
    /\ train' = [train EXCEPT !.pc = "scaled", !.scaling = ComputeScaling(train.rows)]
    /\ UNCHANGED << files, phase, loadError, predictor, persisted, calls >>

\* train_model.build_design_matrix, that is scale_row on every row
BuildDesignMatrixCall ==
    /\ train.pc = "scaled"
    /\ LET r == BuildDesignMatrix(train.rows, train.scaling)
       IN  train' = IF r.error # ""
                    THEN [train EXCEPT !.pc = "failed", !.error = r.error,
                                       !.at = "scale_row"]
                    ELSE [train EXCEPT !.pc = "matrix", !.X = r.X, !.y = r.y]
    /\ UNCHANGED << files, phase, loadError, predictor, persisted, calls >>

\* a row of the dataset file: three columns vary, the others hold 1.0
DataRow(age, chol, ca, target) ==
    [ cells |-> [f \in FeatureNames |->
                    CASE f = "age" -> age
                      [] f = "chol" -> chol
                      [] f = "ca" -> ca
                      [] OTHER -> Known(1 * Unit)],
      target |-> target ]

\* rows with known and unknown cells, and targets below, at and above 1
DataRows ==
    { DataRow(Known(1 * Unit), Known(2 * Unit), Known(0), 0),
      DataRow(Known(3 * Unit), Known(2 * Unit), Unknown, 1 * Unit),
      DataRow(Known(2 * Unit), Unknown, Unknown, 2 * Unit),
      DataRow(Unknown, Known(2 * Unit), Known(1 * Unit), Unit \div 2) }

\* the dataset files: every sequence of at most MaxRows of these rows
DatasetFiles == UNION { [1..n -> DataRows] : n \in 0..MaxRows }

\* the training script on its own: every weight vector up to MaxWeights long
WeightValues == {-2000, 0, 500, 1000}

WeightVectors == UNION { [1..n -> WeightValues] : n \in 0..MaxWeights }

InitTrain ==
    /\ files = [model |-> NoFile, stats |-> NoFile, report |-> NoFile]
    /\ phase = "down"
    /\ loadError = ""
    /\ predictor = NewPredictor
    /\ persisted = NotPersisted
    /\ calls = [c \in Threads |-> Idle]
    /\ train \in { [TrainOff EXCEPT !.pc = "fitted", !.weights = w] :
                      w \in WeightVectors }
              \cup { [TrainOff EXCEPT !.pc = "start", !.file = f] :
                      f \in DatasetFiles }

NextTrain ==
    \/ NormalizeImportanceCall
    \/ LoadDatasetCall
    \/ ComputeScalingCall
    \/ BuildDesignMatrixCall

SpecTrain == InitTrain /\ [][NextTrain]_vars

\* train_logistic_regression, its set-up
TrainBeginCall ==
    /\ train.pc = "fit"
    /\ train' = TrainBegin(train)
    /\ UNCHANGED << files, phase, loadError, predictor, persisted, calls >>

\* train_logistic_regression, one turn of `for epoch in range(epochs)`
TrainEpoch ==
    /\ train.pc = "epoch"
    /\ train.epoch < train.epochs
    /\ train' = TrainStep(train)
    /\ UNCHANGED << files, phase, loadError, predictor, persisted, calls >>

\* train_logistic_regression, `return weights, bias` once the range is used up
TrainReturn ==
    /\ train.pc = "epoch"
    /\ train.epoch = train.epochs
    /\ train' = [train EXCEPT !.pc = "trained"]
    /\ UNCHANGED << files, phase, loadError, predictor, persisted, calls >>

\* the design matrix main builds from a dataset file
DesignMatrix(file) ==
    LET rows == LoadDataset(file).rows
    IN  BuildDesignMatrix(rows, ComputeScaling(rows))

\* dataset files whose columns all have a known value
TrainingFiles ==
    { << DataRow(Known(1 * Unit), Known(2 * Unit), Known(0), 0),
         DataRow(Known(3 * Unit), Known(2 * Unit), Unknown, 1 * Unit) >>,
      << DataRow(Known(1 * Unit), Known(2 * Unit), Known(0), 1 * Unit),
         DataRow(Known(3 * Unit), Known(2 * Unit), Unknown, 1 * Unit),
         DataRow(Unknown, Known(2 * Unit), Known(1 * Unit), Unit \div 2) >> }

\* X_train, y_train: the design matrices of the files, and the empty slice
\* that X[:split_idx] is for a single row
TrainingSets ==
    { [X |-> << >>, y |-> << >>] }
        \cup { [X |-> DesignMatrix(f).X, y |-> DesignMatrix(f).y] : f \in TrainingFiles }

\* the epoch budgets: none, one, up to the first and the second decay, and
\* the default
EpochBudgets == {0, 1, DecayEvery + 1, 2 * DecayEvery + 2, DefaultEpochs}

\* train_logistic_regression on its own
InitFit ==
    /\ files = [model |-> NoFile, stats |-> NoFile, report |-> NoFile]
    /\ phase = "down"
    /\ loadError = ""
    /\ predictor = NewPredictor
    /\ persisted = NotPersisted
    /\ calls = [c \in Threads |-> Idle]
    /\ train \in { [TrainOff EXCEPT !.pc = "fit", !.X = t.X, !.y = t.y,
                                     !.epochs = e, !.lr = DefaultLr,
                                     !.lr0 = DefaultLr] :
                      t \in TrainingSets, e \in EpochBudgets }

NextFit ==
    \/ TrainBeginCall
    \/ TrainEpoch
    \/ TrainReturn

SpecFit == InitFit /\ [][NextFit]_vars


\* ------------------------------------------------------------------- claims
Scored(c) == calls[c].pc \in {"scored", "done"}

Done(c) == calls[c].pc = "done"

Failed(c) == calls[c].pc = "failed"

InSeq(x, seq) == \E i \in DOMAIN seq : seq[i] = x

Rank(category) ==
    CASE category = "Low" -> 0 [] category = "Moderate" -> 1 [] category = "High" -> 2

\* C1: every scored call has a probability in [0, 1] and a classification in
\* {0, 1} that is 1 exactly when the probability is at least 0.5; a linear
\* score of exactly 0 gives probability 0.5 and classification 1.
C1_ProbabilityAndClass ==
    \A c \in Threads :
        Scored(c) =>
            LET r == calls[c].scored
            IN  /\ r.probability \in 0..Unit
                /\ r.classification \in {0, 1}
                /\ (r.classification = 1) <=> (r.probability >= ClassifyAt)
                /\ LinearScore(predictor, r.vector) = 0
                      => r.probability = ClassifyAt /\ r.classification = 1
                /\ Done(c) => /\ calls[c].response.probability = r.probability
                              /\ calls[c].response.classification = r.classification

\* the toy artifact answers age 50: score 0, probability 0.5, class 1, Moderate
C1_Witness ==
    \E c \in Threads :
        /\ Done(c)
        /\ predictor.weights = << 1000 >>
        /\ calls[c].payload.age = 50
        /\ LinearScore(predictor, calls[c].scored.vector) = 0
        /\ calls[c].response.probability = ClassifyAt
        /\ calls[c].response.classification = 1
        /\ calls[c].response.risk_category = "Moderate"

\* C2: the risk category of a response is Low for a probability in [0, 0.33),
\* Moderate for [0.33, 0.66) and High for [0.66, 1]; it depends on the
\* probability only and a larger probability never has a lower category.
C2_CategoryByProbability ==
    /\ \A c \in Threads :
          Done(c) =>
              LET r == calls[c].response
              IN  /\ (r.risk_category = "Low") <=> (r.probability < LowBelow)
                  /\ (r.risk_category = "Moderate")
                        <=> (LowBelow <= r.probability /\ r.probability < ModerateBelow)
                  /\ (r.risk_category = "High") <=> (ModerateBelow <= r.probability)
    /\ \A c, d \in Threads :
          Done(c) /\ Done(d) /\ calls[c].response.probability <= calls[d].response.probability
              => Rank(calls[c].response.risk_category) <= Rank(calls[d].response.risk_category)

\* two responses, one at each threshold
C2_Witness ==
    \E c, d \in Threads :
        /\ Done(c) /\ Done(d)
        /\ calls[c].response.probability = LowBelow
        /\ calls[c].response.risk_category = "Moderate"
        /\ calls[d].response.probability = ModerateBelow
        /\ calls[d].response.risk_category = "High"

\* C3: whenever calories_burned is below the healthy_low bound of the loaded
\* calories_burned stats, the response has both the low-activity insight and
\* the activity recommendation, and the two always appear together.
C3_LowActivityTogether ==
    \A c \in Threads :
        Done(c) =>
            LET r == calls[c].response
                st == Get(predictor.stats, "calories_burned", << >>)
                insight == InSeq(InsightLowActivity, r.key_insights)
                recommendation == InSeq(RecActivity, r.recommended_actions)
            IN  /\ ("healthy_low" \in DOMAIN st
                      /\ calls[c].payload.calories_burned < st.healthy_low)
                      => insight /\ recommendation
                /\ insight <=> recommendation

\* C4: a response has the "possible diabetes" insight and the glycemic-control
\* recommendation when sugar_level >= 126, and neither when it is below.
C4_DiabetesPair ==
    \A c \in Threads :
        Done(c) =>
            LET r == calls[c].response
                high == calls[c].payload.sugar_level >= 126
            IN  /\ InSeq(InsightDiabetes, r.key_insights) <=> high
                /\ InSeq(RecGlycemic, r.recommended_actions) <=> high

\* sugar 130 in a Low-risk response, and sugar 125 next to it
C4_Witness ==
    \E c, d \in Threads :
        /\ Done(c) /\ Done(d)
        /\ calls[c].payload.sugar_level = 130
        /\ calls[c].response.risk_category = "Low"
        /\ InSeq(InsightDiabetes, calls[c].response.key_insights)
        /\ InSeq(RecGlycemic, calls[c].response.recommended_actions)
        /\ calls[d].payload.sugar_level = 125
        /\ ~InSeq(InsightDiabetes, calls[d].response.key_insights)
        /\ ~InSeq(RecGlycemic, calls[d].response.recommended_actions)

\* the importance values of the training script, as exact quotients
ImportanceCount == Min(Len(FEATURE_ORDER), Len(train.weights))

ImportanceNonNegative ==
    \A f \in DOMAIN train.importance :
        \/ train.importance[f].num = 0
        \/ (train.importance[f].num > 0) = (train.importance[f].den > 0)

\* the values have one denominator, so they sum to 1 iff the numerators sum to it
ImportanceSumsToOne ==
    /\ \A f, g \in DOMAIN train.importance :
          train.importance[f].den = train.importance[g].den
    /\ \E f \in DOMAIN train.importance :
          SumSeq([i \in 1..ImportanceCount |-> train.importance[FEATURE_ORDER[i]].num])
              = train.importance[f].den

AllWeightsZero == \A i \in 1..ImportanceCount : train.weights[i] = 0

\* C5 as stated: the values are non-negative and sum to 1, except that the map
\* is empty when all weights are zero.
C5_AsStated ==
    train.pc = "reported" =>
        /\ ImportanceNonNegative
        /\ IF AllWeightsZero THEN train.importance = << >> ELSE ImportanceSumsToOne

\* C5 as amended: the map has one non-negative value per weight (of the first
\* 13); the values sum to 1 when some weight is not zero, and are all 0 when
\* every weight is zero, the map being empty only for no weights at all.
C5_Importance ==
    train.pc = "reported" =>
        /\ DOMAIN train.importance = {FEATURE_ORDER[i] : i \in 1..ImportanceCount}
        /\ ImportanceNonNegative
        /\ IF AllWeightsZero
           THEN \A f \in DOMAIN train.importance : train.importance[f].num = 0
           ELSE ImportanceSumsToOne

\* all-zero weights give a map of zeros, not an empty map
C5_Witness ==
    /\ train.pc = "reported"
    /\ train.weights = << 0, 0 >>
    /\ DOMAIN train.importance = {"age", "sex"}
    /\ \A f \in DOMAIN train.importance : train.importance[f].num = 0

\* C6: a load fails when a required key is absent or the lengths disagree; a
\* loaded predictor never has a weights list of another length than
\* feature_order.
C6_LoadedLengthsAgree ==
    /\ (phase # "down" /\ files.model.exists /\ files.stats.exists
          /\ \E i \in DOMAIN ModelKeys :
                ModelKeys[i] \notin DOMAIN JsonLoad(files.model.text))
          => phase = "failed"
    /\ phase = "loaded" => Len(predictor.weights) = Len(predictor.feature_order)

\* C7: with the model file or the stats file missing, the load fails before
\* any field is assigned, and no predict call is ever answered.
C7_MissingFileFailsClean ==
    /\ (phase # "down" /\ (~files.model.exists \/ ~files.stats.exists))
          => /\ phase = "failed"
             /\ loadError = IF ~files.model.exists THEN "ArtifactMissing" ELSE "StatsMissing"
             /\ predictor = NewPredictor
    /\ phase # "loaded" => \A c \in Threads : calls[c] = Idle

\* the model file is there, the stats file is not
C7_Witness ==
    /\ phase = "failed"
    /\ files.model.exists
    /\ ~files.stats.exists
    /\ loadError = "StatsMissing"

\* C8: predict on an engine with an empty weights list fails with
\* ModelNotLoaded before the vector is built, and returns no result.
C8_ModelNotLoaded ==
    \A c \in Threads :
        (calls[c].pc # "idle" /\ predictor.weights = << >>)
            => /\ Failed(c)
               /\ calls[c].error = "ModelNotLoaded"
               /\ calls[c].scored = << >>
               /\ calls[c].response = << >>

\* the call failed on an engine whose vector construction would have raised
C8_Witness ==
    \E c \in Threads :
        /\ Failed(c)
        /\ calls[c].error = "ModelNotLoaded"
        /\ predictor.weights = << >>
        /\ RequestVector(predictor, calls[c].payload).error = "KeyError"

\* what a finished or failed call holds is what predict gives for its request
\* on the loaded engine
ResultOfOwnRequest ==
    \A c \in Threads :
        /\ Done(c) => /\ Predict(predictor, calls[c].payload).error = ""
                      /\ calls[c].response = Predict(predictor, calls[c].payload).response
        /\ Failed(c) => calls[c].error = Predict(predictor, calls[c].payload).error

\* C9: after the load no step of any predict call, in any interleaving,
\* changes the engine; each result is that of the call's own request on the
\* loaded engine.
C9_SharedStateUntouched ==
    /\ [][phase = "loaded" => predictor' = predictor]_vars
    /\ []ResultOfOwnRequest

\* two calls at different positions, one of them answered
C9_Witness ==
    \E c, d \in Threads :
        /\ Done(c)
        /\ calls[d].pc = "scored"
        /\ calls[c].payload # calls[d].payload
        /\ calls[c].response.probability # calls[d].scored.probability

\* C10: after persist_artifacts, a load from the same files gives the
\* persisted feature_order, weights and bias, and the persisted stats map.
C10_RoundTrip ==
    (persisted.done /\ phase # "down"
        /\ \A i \in DOMAIN ModelKeys : ModelKeys[i] \in DOMAIN persisted.model_payload)
        => /\ phase = "loaded"
           /\ predictor.feature_order = persisted.model_payload.feature_order
           /\ predictor.weights = persisted.model_payload.weights
           /\ predictor.bias = persisted.model_payload.bias
           /\ predictor.scaling = persisted.model_payload.scaling
           /\ predictor.stats = persisted.feature_stats

\* a persisted artifact with two weights, loaded
C10_Witness ==
    /\ persisted.done
    /\ phase = "loaded"
    /\ predictor.weights = << -2000, 500 >>
    /\ predictor.bias = 250
    /\ predictor.stats = persisted.feature_stats


\* the five insight rules as the response should show them, per thread
RuleMessages ==
    << InsightBP, InsightChol, InsightAngina, InsightDiabetes, InsightLowActivity >>

\* the healthy-low bound of the calorie burn: that of the loaded stats, 1500
\* when they have none
HealthyLowBound ==
    LET st == Get(predictor.stats, "calories_burned", << >>)
    IN  IF "healthy_low" \in DOMAIN st THEN st.healthy_low ELSE 1500

LowCalorieBurn(c) == calls[c].payload.calories_burned < HealthyLowBound

RuleApplies(c, i) ==
    LET q == calls[c].payload
        st == predictor.stats
    IN  CASE i = 1 -> /\ "bp_systolic" \in DOMAIN st
                      /\ "p90" \in DOMAIN st.bp_systolic
                      /\ q.bp_systolic > st.bp_systolic.p90
          [] i = 2 -> /\ "cholesterol" \in DOMAIN st
                      /\ "p90" \in DOMAIN st.cholesterol
                      /\ q.cholesterol > st.cholesterol.p90
          [] i = 3 -> q.exercise_angina
          [] i = 4 -> q.sugar_level >= 126
          [] i = 5 -> LowCalorieBurn(c)

\* C11: the insight list is the messages of the applicable rules, in the order
\* BP, cholesterol, angina, sugar, calorie burn; with no applicable rule it is
\* the generic message alone, so it is never empty and the generic message
\* never stands next to a rule message.
C11_InsightsInOrder ==
    \A c \in Threads :
        Done(c) =>
            LET got == calls[c].response.key_insights
                applicable == {i \in 1..5 : RuleApplies(c, i)}
            IN  /\ got # << >>
                /\ IF applicable = {}
                   THEN got = << InsightGeneric >>
                   ELSE /\ Len(got) = Cardinality(applicable)
                        /\ \A i \in applicable : InSeq(RuleMessages[i], got)
                        /\ \A j, k \in DOMAIN got :
                              j < k => \E a, b \in applicable :
                                          /\ a < b
                                          /\ got[j] = RuleMessages[a]
                                          /\ got[k] = RuleMessages[b]
                        /\ ~InSeq(InsightGeneric, got)

\* one response with all five rule messages, another with the generic one
C11_Witness ==
    \E c, d \in Threads :
        /\ Done(c) /\ Done(d)
        /\ calls[c].response.key_insights = RuleMessages
        /\ calls[d].response.key_insights = << InsightGeneric >>

\* C12: the recommendation list is the two baseline entries, then the two
\* urgent-care entries exactly when the category is not Low, then the activity
\* entry exactly when the calorie burn is low (below the healthy-low bound),
\* then the glycemic entry exactly when the sugar is at least 126; its length
\* is 2 + 2*[category # Low] + [low calorie burn] + [sugar >= 126].
C12_RecommendationsInOrder ==
    \A c \in Threads :
        Done(c) =>
            LET r == calls[c].response
                got == r.recommended_actions
                urgent == r.risk_category # "Low"
                low == LowCalorieBurn(c)
                sugar == calls[c].payload.sugar_level >= 126
                n(b) == IF b THEN 1 ELSE 0
            IN  /\ Len(got) = 2 + 2 * n(urgent) + n(low) + n(sugar)
                /\ got[1] = RecLog /\ got[2] = RecShare
                /\ urgent => got[3] = RecLipid /\ got[4] = RecNitrate
                /\ low => got[3 + 2 * n(urgent)] = RecActivity
                /\ sugar => got[Len(got)] = RecGlycemic
                /\ InSeq(RecLipid, got) <=> urgent
                /\ InSeq(RecActivity, got) <=> low
                /\ InSeq(RecGlycemic, got) <=> sugar

SameButFlags(p, q) == [p EXCEPT !.smoker = q.smoker, !.diabetic = q.diabetic] = q

FbsIndex == {i \in DOMAIN predictor.feature_order : predictor.feature_order[i] = "fbs"}

\* C13: the fbs entry of the vector is 1.0 exactly when sugar_level >= 126,
\* whatever the caller's flags; requests that differ in the smoker and
\* diabetic flags only have the same vector and the same probability.
C13_FbsFromSugar ==
    /\ \A c \in Threads :
          (Scored(c) /\ "fbs" \notin DOMAIN predictor.scaling) =>
              \A i \in FbsIndex :
                  calls[c].scored.vector[i] =
                      IF calls[c].payload.sugar_level >= 126 THEN Unit ELSE 0
    /\ \A c, d \in Threads :
          (Scored(c) /\ Scored(d) /\ SameButFlags(calls[c].payload, calls[d].payload))
              => /\ calls[c].scored.vector = calls[d].scored.vector
                 /\ calls[c].scored.probability = calls[d].scored.probability

\* a diabetic flag with sugar 125 next to the same request without the flag
C13_Witness ==
    \E c, d \in Threads :
        /\ Scored(c) /\ Scored(d)
        /\ FbsIndex # {}
        /\ calls[c].payload.diabetic /\ ~calls[d].payload.diabetic
        /\ calls[c].payload.sugar_level = 125
        /\ SameButFlags(calls[c].payload, calls[d].payload)
        /\ \A i \in FbsIndex : calls[c].scored.vector[i] = 0
        /\ calls[c].scored.vector = calls[d].scored.vector

\* C14: a feature with a scaling entry enters the vector as
\* (value - mean) / std, a feature without one as its raw value; a missing
\* scaling entry never makes predict fail.
C14_ScaledOrRaw ==
    \A c \in Threads :
        LET order == predictor.feature_order
            row == RequestRow(calls[c].payload)
            sound == /\ predictor.weights # << >>
                     /\ \A i \in DOMAIN order :
                           /\ order[i] \in DOMAIN row
                           /\ order[i] \in DOMAIN predictor.scaling
                                 => predictor.scaling[order[i]].std # 0
        IN  /\ Scored(c) =>
                  /\ Len(calls[c].scored.vector) = Len(order)
                  /\ \A i \in DOMAIN order :
                        calls[c].scored.vector[i] =
                            IF order[i] \in DOMAIN predictor.scaling
                            THEN FloatDiv((row[order[i]] * Unit
                                              - predictor.scaling[order[i]].mean) * Unit,
                                          predictor.scaling[order[i]].std)
                            ELSE row[order[i]] * Unit
            /\ (calls[c].pc # "idle" /\ sound
                  /\ ChartData(predictor, calls[c].payload).error = "")
                  => ~Failed(c)

\* age is scaled to one std above the mean, fbs has no entry and stays 1.0
C14_Witness ==
    \E c \in Threads :
        /\ Done(c)
        /\ predictor.feature_order = << "age", "fbs" >>
        /\ DOMAIN predictor.scaling = {"age"}
        /\ calls[c].payload.age = 60
        /\ calls[c].payload.sugar_level >= 126
        /\ calls[c].scored.vector = << Unit, Unit >>


\* the dataset job has gone through load_dataset
Loaded == train.pc \in {"rows", "scaled", "matrix", "failed"}

\* every row has the same value in the column
ConstantColumn(rows, feature) ==
    \A i, j \in DOMAIN rows : rows[i][feature] = rows[j][feature]

\* C15: for a non-empty set of rows compute_scaling gives every feature a std
\* that is not zero, 1.0 for a constant column, so that scale_row never
\* divides by zero, and a value equal to the computed mean scales to exactly 0.
C15_StdNeverZero ==
    /\ train.at # "scale_row"
    /\ train.pc \in {"scaled", "matrix"} =>
           \A f \in FeatureNames :
               /\ train.scaling[f].std # 0
               /\ ConstantColumn(train.rows, f) => train.scaling[f].std = 1 * Unit
    /\ train.pc = "matrix" =>
           /\ Len(train.X) = Len(train.rows)
           /\ \A i \in DOMAIN train.rows : \A j \in DOMAIN FEATURE_ORDER :
                  train.rows[i][FEATURE_ORDER[j]] = train.scaling[FEATURE_ORDER[j]].mean
                      => train.X[i][j] = 0

\* a design matrix built from rows with a constant column and with a varying
\* column that has a row at its mean
C15_Witness ==
    /\ train.pc = "matrix"
    /\ \E f \in FeatureNames :
           ConstantColumn(train.rows, f) /\ train.scaling[f].std = 1 * Unit
    /\ \E j \in DOMAIN FEATURE_ORDER : \E i \in DOMAIN train.rows :
           /\ ~ConstantColumn(train.rows, FEATURE_ORDER[j])
           /\ train.rows[i][FEATURE_ORDER[j]] = train.scaling[FEATURE_ORDER[j]].mean
           /\ train.X[i][j] = 0

\* the mean of the known values of a column of the file
KnownMean(file, feature) ==
    LET known == {i \in DOMAIN file : file[i].cells[feature].known}
        total[S \in SUBSET known] ==
            IF S = {} THEN 0
            ELSE LET i == CHOOSE i \in S : TRUE
                 IN  file[i].cells[feature].value + total[S \ {i}]
    IN  FloatDiv(total[known], Cardinality(known))

\* C17: for every dataset file load_dataset returns one record per row in file
\* order, known values unchanged, every "?" replaced by the mean of the known
\* values of its column, the target 1 exactly when the raw target is >= 1;
\* also when a column has no known value in any row.
C17_LoadDatasetTotal ==
    Loaded =>
        /\ train.at # "load_dataset"
        /\ Len(train.rows) = Len(train.file)
        /\ \A i \in DOMAIN train.file :
               /\ \A f \in FeatureNames :
                      train.rows[i][f] =
                          IF train.file[i].cells[f].known
                          THEN train.file[i].cells[f].value
                          ELSE KnownMean(train.file, f)
               /\ train.rows[i].target =
                      IF train.file[i].target >= 1 * Unit THEN 1 * Unit ELSE 0


\* lr0 after d decays
RECURSIVE RateAt(_, _)
RateAt(lr0, d) == IF d = 0 THEN lr0 ELSE Decay(RateAt(lr0, d - 1))

\* the training loop is running or has returned
Fitting == train.pc \in {"epoch", "trained"}

\* C16 as stated: exactly `epochs` updates always, the k-th one with the rate
\* lr0 * 0.9^floor((k-1)/750), so six levels of 750 updates in the default run.
C16_AsStated ==
    /\ train.at # "train_logistic_regression"
    /\ (Fitting /\ train.updates >= 1) =>
           train.rate = RateAt(train.lr0, (train.updates - 1) \div DecayEvery)
    /\ train.pc = "trained" =>
           /\ train.updates = train.epochs
           /\ train.epochs = DefaultEpochs =>
                  train.levels = [i \in 1..(DefaultEpochs \div DecayEvery) |-> DecayEvery]

\* C16: on a non-empty training set train_logistic_regression makes exactly
\* `epochs` updates and returns only then; the first update uses lr0 and the
\* k-th (k >= 2) uses lr0 * 0.9^floor((k-2)/750), so the first level serves
\* 751 updates, the next ones 750 each, and the default run ends with 749
\* updates at its sixth level. On an empty training set it returns the zero
\* weights for epochs = 0 and raises ZeroDivisionError before any update
\* otherwise.
C16_Schedule ==
    /\ train.at = "train_logistic_regression" =>
           Len(train.X) = 0 /\ train.epochs > 0 /\ train.updates = 0
    /\ Fitting =>
           /\ train.updates = train.epoch
           /\ train.updates <= train.epochs
           /\ train.updates >= 1 =>
                  train.rate =
                      RateAt(train.lr0, Max(train.updates - 2, 0) \div DecayEvery)
    /\ train.pc = "trained" =>
           /\ train.updates = train.epochs
           /\ train.epochs > 0 => Len(train.X) > 0
           /\ train.epochs = DefaultEpochs =>
                  train.levels =
                      [i \in 1..(DefaultEpochs \div DecayEvery) |->
                          IF i = 1 THEN DecayEvery + 1
                          ELSE IF i = DefaultEpochs \div DecayEvery THEN DecayEvery - 1
                          ELSE DecayEvery]

\* the default run has returned after its 4500 updates, the first level
\* having served 751 of them
C16_Witness ==
    /\ train.pc = "trained"
    /\ train.epochs = DefaultEpochs
    /\ train.updates = DefaultEpochs
    /\ Len(train.levels) = DefaultEpochs \div DecayEvery
    /\ train.levels[1] = DecayEvery + 1
    /\ train.rate = RateAt(train.lr0, (DefaultEpochs \div DecayEvery) - 1)

=============================================================================
